---- MODULE Spec2Model ----
(***************************************************************************)
(* Task Logs Dashboard (src/app.py): a Streamlit script that fetches the   *)
(* task_logs rows of a time window through a TTL cache and aggregates them *)
(* into an alert, key metrics, a latest-run table, per-script statistics,  *)
(* a daily trend and a level distribution.                                 *)
(*                                                                         *)
(* Time is in seconds.  A task name is the sequence of its code points, so *)
(* that Python's string order is computed and not assumed.  A row carries  *)
(* the three columns the aggregation reads (task_name, level, created_at); *)
(* message and run_source are copied to the table unchanged and are left   *)
(* out.  Every column is non-null.                                         *)
(***************************************************************************)
EXTENDS Integers, Sequences, FiniteSets

\* ------------------------------------------------------------- bounds
\* Most rows the task_logs table holds.
MaxRows == 3
\* Most rows external scripts append while the dashboard is being used.
MaxLogged == 1
\* Most clock steps of a session.
MaxTicks == 3

\* ---------------------------------------------------------- constants
\* @st.cache_data(ttl=60)
TTL == 60
\* timedelta(days=days) and .dt.date: seconds of a calendar day.
DaySeconds == 86400
\* st.slider(..., value=7)
DefaultDays == 7
\* The slider offers 1..30; the model moves it between its minimum and default.
DaysChoices == {1, DefaultDays}
\* The clock advances by half a TTL or by a whole day.
TickSteps == {30, DaySeconds}

\* "ab" and "b" as code points.
TaskNames == {<<97, 98>>, <<98>>}
\* WARNING stands for every level outside INFO, ERROR, CRITICAL.
LevelList == <<"INFO", "ERROR", "CRITICAL", "WARNING">>
Levels == {LevelList[k] : k \in 1..Len(LevelList)}
\* created_at values of a pre-filled table: two on day 0, one on day 2.
Timestamps == {0, 43200, 2 * DaySeconds}
\* The time at which a pre-filled table is first looked at.
AggNow == 2 * DaySeconds

\* What the monitored scripts log while the dashboard is being used: "b" fails.
LoggedKinds == {<<(<<98>>), "ERROR">>}

Events == [task_name : TaskNames, level : Levels, created_at : Timestamps]

\* ------------------------------------------------------------ helpers
RECURSIVE SumSeq(_)
SumSeq(s) == IF s = <<>> THEN 0 ELSE Head(s) + SumSeq(Tail(s))

Range(s) == {s[i] : i \in DOMAIN s}

\* Python's str "<": lexicographic by code point, a proper prefix first.
RECURSIVE StrLess(_, _)
StrLess(a, b) ==
    IF b = <<>> THEN FALSE
    ELSE IF a = <<>> THEN TRUE
    ELSE IF Head(a) # Head(b) THEN Head(a) < Head(b)
    ELSE StrLess(Tail(a), Tail(b))

\* Insert x into the ascending list s.
RECURSIVE InsertSorted(_, _)
InsertSorted(x, s) ==
    IF s = <<>> THEN <<x>>
    ELSE IF StrLess(x, Head(s)) THEN <<x>> \o s
    ELSE <<Head(s)>> \o InsertSorted(x, Tail(s))

\* sorted(names): a new list, ascending.
RECURSIVE Sorted(_)
Sorted(s) == IF s = <<>> THEN <<>> ELSE InsertSorted(Head(s), Sorted(Tail(s)))

\* Series.unique(): the distinct values in order of first appearance.
RECURSIVE Unique(_)
Unique(s) ==
    IF s = <<>> THEN <<>>
    ELSE LET u == Unique(SubSeq(s, 1, Len(s) - 1))
             x == s[Len(s)]
         IN IF x \in Range(u) THEN u ELSE Append(u, x)

Column(df, c) == [i \in DOMAIN df |-> df[i][c]]

\* ---------------------------------------------------- classification
\* Variant: success as the else branch of failure.
IsSuccessElse(level) == level \notin {"ERROR", "CRITICAL"}

IsSuccess(level) == level = "INFO"

\* Variant: CRITICAL forgotten.
IsFailureErrorOnly(level) == level = "ERROR"

IsFailure(level) == level \in {"ERROR", "CRITICAL"}

SuccessRows(df) == SelectSeq(df, LAMBDA e : IsSuccess(e.level))

ErrorRows(df) == SelectSeq(df, LAMBDA e : IsFailure(e.level))

\* ------------------------------------------------------------- fetch
\* The orders in which the row labels S of df can come out of a sort by
\* created_at descending that promises nothing about rows with equal keys: any
\* row of the greatest created_at first, then the rest likewise.
RECURSIVE OrdersOf(_, _)
OrdersOf(S, df) ==
    IF S = {} THEN {<<>>}
    ELSE LET first == {i \in S : \A j \in S : df[i].created_at >= df[j].created_at}
         IN UNION {{<<i>> \o rest : rest \in OrdersOf(S \ {i}, df)} : i \in first}

DescendingOrders(df) == OrdersOf(DOMAIN df, df)

\* The rows of the window [now - days, now], as the store can return them under
\* .order('created_at', desc=True).
QueryResults(tbl, t, d) ==
    LET inWindow == SelectSeq(tbl, LAMBDA e :
                        /\ e.created_at >= t - d * DaySeconds
                        /\ e.created_at <= t)
    IN {[i \in 1..Len(inWindow) |-> inWindow[p[i]]] : p \in DescendingOrders(inWindow)}

\* A fetch outcome: the DataFrame returned and whether st.error was shown.
FetchOutcome(rows, failed) == [df |-> rows, err |-> failed]

\* -------------------------------------------------------- aggregation
\* df.sort_values('created_at', ascending=False) with the default
\* kind='quicksort', which is not stable: every order of the row labels that
\* is descending by created_at.
\* Variant: ascending=False forgotten.
SortValuesAscending(df) ==
    {[k \in DOMAIN p |-> p[Len(p) + 1 - k]] : p \in DescendingOrders(df)}

SortValues(df) == DescendingOrders(df)

\* .drop_duplicates('task_name'): of the row labels in `order`, the first of
\* each task_name.
RECURSIVE DropDuplicates(_, _)
DropDuplicates(order, df) ==
    IF order = <<>> THEN <<>>
    ELSE LET u == DropDuplicates(SubSeq(order, 1, Len(order) - 1), df)
             x == order[Len(order)]
         IN IF \E i \in Range(u) : df[i].task_name = df[x].task_name
            THEN u ELSE Append(u, x)

\* latest_runs: the row labels the sort and the drop can leave, one sequence
\* for each order the sort can produce.
LatestRuns(df) == {DropDuplicates(order, df) : order \in SortValues(df)}

\* One displayed row of the task table for the row labelled i.
TableRow(df, i) ==
    [task_name |-> df[i].task_name,
     success   |-> IsSuccess(df[i].level),
     level     |-> df[i].level,
     last_run  |-> df[i].created_at]

TableData(latest, df) == [k \in DOMAIN latest |-> TableRow(df, latest[k])]

\* n / d rounded to the nearest integer, halves to even, as ".1f" rounds.
RoundDiv(n, d) ==
    LET q == n \div d
        r == n % d
    IN IF 2 * r < d THEN q
       ELSE IF 2 * r > d THEN q + 1
       ELSE IF q % 2 = 0 THEN q ELSE q + 1

\* (success / total * 100) if total > 0 else 0, as the tenths of a percent that
\* f"{success_rate:.1f}%" prints.
SuccessRate(success, total) ==
    IF total > 0 THEN RoundDiv(success * 1000, total) ELSE 0

\* The statistics row of one script.
ScriptStat(df, name) ==
    LET script_df == SelectSeq(df, LAMBDA e : e.task_name = name)
        total     == Len(script_df)
        success   == Len(SuccessRows(script_df))
        error     == Len(ErrorRows(script_df))
    IN [script |-> name, total |-> total, success |-> success,
        failed |-> error, rate |-> SuccessRate(success, total)]

\* Variant: sorted() forgotten.
ScriptOrderUnsorted(df) == Unique(Column(df, "task_name"))

\* The scripts in the order the statistics loop visits them.
ScriptOrder(df) == Sorted(Unique(Column(df, "task_name")))

ScriptStats(df) ==
    LET names == ScriptOrder(df)
    IN [k \in DOMAIN names |-> ScriptStat(df, names[k])]

\* created_at.dt.date, as a day number.
DateOf(t) == t \div DaySeconds

RECURSIVE Ascending(_)
Ascending(S) ==
    IF S = {} THEN <<>>
    ELSE LET m == CHOOSE x \in S : \A y \in S : x <= y
         IN <<m>> \o Ascending(S \ {m})

\* Variant: the days between the first and the last date filled in.
TrendDatesFilled(df) ==
    LET dates == {DateOf(e.created_at) : e \in Range(df)}
    IN Ascending({d \in 0..DateOf(AggNow) :
                    (\E a \in dates : a <= d) /\ (\E b \in dates : d <= b)})

\* The group keys of df.groupby(df['created_at'].dt.date), in output order.
TrendDates(df) == Ascending({DateOf(e.created_at) : e \in Range(df)})

\* groupby(...).size(): one (date, count) per group.
DailyStats(df) ==
    LET dates == TrendDates(df)
    IN [k \in DOMAIN dates |->
          [date  |-> dates[k],
           count |-> Len(SelectSeq(df, LAMBDA e : DateOf(e.created_at) = dates[k]))]]

\* Variant: only the levels of the colour map counted.
LevelStatsKnownOnly(df) ==
    [l \in {e.level : e \in Range(df)} \cap {"INFO", "ERROR", "CRITICAL"} |->
        Len(SelectSeq(df, LAMBDA e : e.level = l))]

\* df['level'].value_counts(): a count for each level that occurs.
LevelStats(df) ==
    [l \in {e.level : e \in Range(df)} |->
        Len(SelectSeq(df, LAMBDA e : e.level = l))]

\* The five st.metric values.
KeyMetrics(df) ==
    LET total_runs    == Len(df)
        success_count == Len(SuccessRows(df))
        error_count   == Len(ErrorRows(df))
    IN [total_runs     |-> total_runs,
        success        |-> success_count,
        failed         |-> error_count,
        success_rate   |-> SuccessRate(success_count, total_runs),
        unique_scripts |-> Cardinality({e.task_name : e \in Range(df)})]

\* The alert box: st.error with the failed scripts, or st.success.
Alert(df) ==
    LET error_df == ErrorRows(df)
    IN IF error_df # <<>>
       THEN [kind |-> "error", error_count |-> Len(error_df),
             failed_scripts |-> Unique(Column(error_df, "task_name"))]
       ELSE [kind |-> "success", error_count |-> 0, failed_scripts |-> <<>>]

\* ------------------------------------------------------------- page
\* What one run of the script shows.  A section that was not rendered is an
\* empty sequence; a rendered one is a sequence of its one value.
BlankPage ==
    [fetch_error |-> FALSE, exception |-> FALSE,
     warning |-> FALSE, alert |-> <<>>, metrics |-> <<>>,
     latest_runs |-> <<>>, table_data |-> <<>>, script_stats |-> <<>>,
     daily_stats |-> <<>>, level_stats |-> <<>>]

NoDataPage == [BlankPage EXCEPT !.warning = TRUE]

\* The script stopped on an uncaught exception.
CrashPage == [BlankPage EXCEPT !.exception = TRUE]

\* The else branch.  pd.DataFrame() has no column: df['level'] on it raises
\* KeyError.
FullPage(df, latest) ==
    IF df = <<>> THEN CrashPage ELSE
       [fetch_error  |-> FALSE,
        exception    |-> FALSE,
        warning      |-> FALSE,
        alert        |-> <<Alert(df)>>,
        metrics      |-> <<KeyMetrics(df)>>,
        latest_runs  |-> latest,
        table_data   |-> TableData(latest, df),
        script_stats |-> ScriptStats(df),
        daily_stats  |-> DailyStats(df),
        level_stats  |-> <<LevelStats(df)>>]

\* Variant: the df.empty test forgotten.
RenderBodyNoGuard(df, latest) == FullPage(df, latest)

\* if df.empty: warning; else: every section.
RenderBody(df, latest) ==
    IF df = <<>> THEN NoDataPage ELSE FullPage(df, latest)

\* ------------------------------------------------------------- state
VARIABLES
    now,          \* datetime.now(), in seconds
    ticks,        \* clock steps taken
    table,        \* the task_logs rows of the store, in insertion order
    storeUp,      \* whether a query of the store succeeds or raises
    days,         \* the slider's value
    cache,        \* st.cache_data's entries for fetch_task_logs
    page,         \* what the last run of the script rendered
    run,          \* the last run: when, for which days, on which snapshot
    lastRefresh   \* when Refresh Data was last clicked (-1: never)

vars == <<now, ticks, table, storeUp, days, cache, page, run, lastRefresh>>

\* ------------------------------------------------------------- cache
\* The cache key of a call fetch_task_logs(days=d): its argument.
CacheKey(d) == d

\* An entry is served while it is younger than the ttl.
CacheValid(e, t) == t - e.at < TTL

\* Variant: the button reruns without clearing.
ClearCacheNothing(c) == c

\* st.cache_data.clear()
ClearCache(c) == {}

\* The entry made of the value `out` computed for days = d at time t.
CacheEntry(d, t, out) ==
    [key |-> CacheKey(d), window |-> d, at |-> t, df |-> out.df, err |-> out.err]

\* The entries of c that a call with days = d at time t may be served from.
CacheHits(c, d, t) == {e \in c : e.key = CacheKey(d) /\ CacheValid(e, t)}

\* Variant: a failed fetch is not kept.
CacheStoreSkipErrors(c, d, t, out) ==
    IF out.err THEN {e \in c : e.key # CacheKey(d) /\ CacheValid(e, t)}
    ELSE {e \in c : e.key # CacheKey(d) /\ CacheValid(e, t)} \cup {CacheEntry(d, t, out)}

\* c after the value computed for days = d at time t is stored: the entry of
\* the same key is replaced and expired entries are dropped.
CacheStore(c, d, t, out) ==
    {e \in c : e.key # CacheKey(d) /\ CacheValid(e, t)}
        \cup {CacheEntry(d, t, out)}

\* The body of fetch_task_logs(days=d): the query's rows as a DataFrame, or an
\* empty DataFrame when the query returns no row or raises.
FetchTaskLogs(d) ==
    IF storeUp
    THEN {FetchOutcome(rows, FALSE) : rows \in QueryResults(table, now, d)}
    ELSE {FetchOutcome(<<>>, TRUE)}

\* fetch_task_logs(days=d) through the cache c: the entry served, and whether
\* the function body ran.
CachedFetch(c, d) ==
    LET hits == CacheHits(c, d, now)
    IN IF hits # {}
       THEN {[entry |-> e, ran |-> FALSE, cache |-> c] : e \in hits}
       ELSE {[entry |-> CacheEntry(d, now, out),
              ran   |-> TRUE,
              cache |-> CacheStore(c, d, now, out)] : out \in FetchTaskLogs(d)}

\* No run yet.
NoRun == [trigger |-> "none", at |-> -1, days |-> 0, snapshot_at |-> -1,
          snapshot_days |-> 0, fetched |-> FALSE, df |-> <<>>]

\* One run of the script from the fetch on, with the slider at d and the cache
\* c; trigger says what started it.
ScriptRun(d, c, trigger) ==
    \E f \in CachedFetch(c, d) :
      \E latest \in LatestRuns(f.entry.df) :
        /\ cache' = f.cache
        /\ page' = [RenderBody(f.entry.df, latest) EXCEPT !.fetch_error = f.entry.err]
        /\ run' = [trigger |-> trigger, at |-> now, days |-> d,
                   snapshot_at |-> f.entry.at, snapshot_days |-> f.entry.window,
                   fetched |-> f.ran, df |-> f.entry.df]

\* ----------------------------------------------------------- actions
\* The script reruns with nothing changed (first load, a reload of the page).
Rerun ==
    /\ ScriptRun(days, cache, "load")
    /\ UNCHANGED <<now, ticks, table, storeUp, days, lastRefresh>>

\* The slider is moved to d, which reruns the script.
SetDays(d) ==
    /\ d # days
    /\ days' = d
    /\ ScriptRun(d, cache, "slider")
    /\ UNCHANGED <<now, ticks, table, storeUp, lastRefresh>>

\* Refresh Data is clicked: the cache is cleared and st.rerun() runs the
\* script again.
Refresh ==
    /\ lastRefresh' = now
    /\ ScriptRun(days, ClearCache(cache), "refresh")
    /\ UNCHANGED <<now, ticks, table, storeUp, days>>

\* Time passes.
Tick(dt) ==
    /\ ticks < MaxTicks
    /\ now' = now + dt
    /\ ticks' = ticks + 1
    /\ UNCHANGED <<table, storeUp, days, cache, page, run, lastRefresh>>

\* A monitored script logs an event.
LogEvent(name, level) ==
    /\ Len(table) < MaxLogged
    /\ table' = Append(table, [task_name |-> name, level |-> level, created_at |-> now])
    /\ UNCHANGED <<now, ticks, storeUp, days, cache, page, run, lastRefresh>>

\* The store becomes unreachable, or reachable again.
StoreToggle ==
    /\ storeUp' = ~storeUp
    /\ UNCHANGED <<now, ticks, table, days, cache, page, run, lastRefresh>>

Init ==
    /\ now = 0
    /\ ticks = 0
    /\ table = <<>>
    /\ storeUp = TRUE
    /\ days = DefaultDays
    /\ cache = {}
    /\ page = BlankPage
    /\ run = NoRun
    /\ lastRefresh = -1

Next ==
    \/ Rerun
    \/ \E d \in DaysChoices : SetDays(d)
    \/ Refresh
    \/ \E dt \in TickSteps : Tick(dt)
    \/ \E k \in LoggedKinds : LogEvent(k[1], k[2])
    \/ StoreToggle

Spec == Init /\ [][Next]_vars

\* The aggregation on its own: the store already holds any table of at most
\* MaxRows rows, all inside the window, and the script runs on it.  The rows
\* are in the order of their created_at; rows of one created_at are listed in
\* one fixed order, since the query returns them in every order.
LevelRank(l) == CHOOSE k \in 1..Len(LevelList) : LevelList[k] = l

ListedBefore(a, b) ==
    IF a.created_at # b.created_at THEN a.created_at < b.created_at
    ELSE IF a.task_name # b.task_name THEN StrLess(a.task_name, b.task_name)
    ELSE LevelRank(a.level) <= LevelRank(b.level)

RECURSIVE Tables(_)
Tables(n) ==
    IF n = 0 THEN {<<>>}
    ELSE LET shorter == Tables(n - 1)
         IN shorter \cup
            UNION {{Append(t, e) : e \in {x \in Events :
                                        t = <<>> \/ ListedBefore(t[Len(t)], x)}} :
                   t \in {u \in shorter : Len(u) = n - 1}}

InitAgg ==
    /\ now = AggNow
    /\ ticks = 0
    /\ table \in Tables(MaxRows)
    /\ storeUp = TRUE
    /\ days = DefaultDays
    /\ cache = {}
    /\ page = BlankPage
    /\ run = NoRun
    /\ lastRefresh = -1

NextAgg == Rerun

SpecAgg == InitAgg /\ [][NextAgg]_vars

\* ------------------------------------------------------------ claims
\* The script has run at least once.
Rendered == run.trigger # "none"

\* The row labels of df whose task_name is name.
RowsOf(df, name) == {i \in DOMAIN df : df[i].task_name = name}

NamesIn(df) == {df[i].task_name : i \in DOMAIN df}

RECURSIVE SumOver(_, _)
SumOver(f, S) ==
    IF S = {} THEN 0
    ELSE LET x == CHOOSE y \in S : TRUE IN f[x] + SumOver(f, S \ {x})

\* Every order of the labels S.
RECURSIVE AllOrders(_)
AllOrders(S) ==
    IF S = {} THEN {<<>>}
    ELSE UNION {{<<i>> \o rest : rest \in AllOrders(S \ {i})} : i \in S}

\* Every permutation of df.
Permutations(df) == {[k \in DOMAIN df |-> df[p[k]]] : p \in AllOrders(DOMAIN df)}

\* C1: for a non-empty snapshot the latest-run table has exactly one row for
\* each distinct task_name, and the row kept for a task has a created_at that
\* is at least the created_at of every event of that task.
C1_LatestPerTask ==
    (Rendered /\ run.df # <<>>) =>
        LET df     == run.df
            latest == page.latest_runs
        IN /\ Range(latest) \subseteq DOMAIN df
           /\ Len(latest) = Cardinality(NamesIn(df))
           /\ {df[i].task_name : i \in Range(latest)} = NamesIn(df)
           /\ \A i \in Range(latest) : \A j \in RowsOf(df, df[i].task_name) :
                  df[i].created_at >= df[j].created_at
           /\ Len(page.table_data) = Len(latest)
           /\ \A k \in DOMAIN latest :
                  /\ page.table_data[k].task_name = df[latest[k]].task_name
                  /\ page.table_data[k].last_run = df[latest[k]].created_at

\* Three events of two tasks were aggregated, one task with an older and a
\* newer event.
C1_Witness ==
    /\ Rendered
    /\ Len(run.df) = 3
    /\ Len(page.latest_runs) = 2
    /\ \E i, j \in DOMAIN run.df :
          /\ run.df[i].task_name = run.df[j].task_name
          /\ run.df[i].created_at > run.df[j].created_at

\* C2: the level distribution, the per-script totals and the daily counts of
\* one snapshot each add up to the number of its events, which is the Total
\* Runs metric.
C2_EveryEventOnce ==
    Rendered =>
        LET n == Len(run.df)
        IN /\ SumSeq([k \in DOMAIN page.script_stats |-> page.script_stats[k].total]) = n
           /\ SumSeq([k \in DOMAIN page.daily_stats |-> page.daily_stats[k].count]) = n
           /\ IF n = 0 THEN page.level_stats = <<>> /\ page.metrics = <<>>
              ELSE /\ Len(page.level_stats) = 1
                   /\ SumOver(page.level_stats[1], DOMAIN page.level_stats[1]) = n
                   /\ Len(page.metrics) = 1
                   /\ page.metrics[1].total_runs = n

\* Three events with an unrecognized level among them, of two scripts, on two
\* dates.
C2_Witness ==
    /\ Rendered
    /\ Len(run.df) = 3
    /\ Len(page.script_stats) = 2
    /\ Len(page.daily_stats) = 2
    /\ Len(page.level_stats) = 1
    /\ "WARNING" \in DOMAIN page.level_stats[1]
    /\ Cardinality(DOMAIN page.level_stats[1]) >= 2

\* C3: the alert is raised exactly when some event has level ERROR or
\* CRITICAL, and the failed scripts it lists are exactly the task names of
\* those events.
C3_AlertState ==
    Rendered =>
        LET df     == run.df
            failed == {i \in DOMAIN df : df[i].level \in {"ERROR", "CRITICAL"}}
        IN IF df = <<>> THEN page.alert = <<>> /\ failed = {}
           ELSE /\ Len(page.alert) = 1
                /\ page.alert[1].kind = "error" <=> failed # {}
                /\ page.alert[1].kind \in {"error", "success"}
                /\ Range(page.alert[1].failed_scripts) = {df[i].task_name : i \in failed}
                /\ page.alert[1].error_count = Cardinality(failed)

\* An alert for a CRITICAL event that lists one of the two scripts present.
C3_Witness ==
    /\ Rendered
    /\ Len(page.alert) = 1
    /\ page.alert[1].kind = "error"
    /\ Len(page.alert[1].failed_scripts) = 1
    /\ Cardinality(NamesIn(run.df)) = 2
    /\ \E i \in DOMAIN run.df : run.df[i].level = "CRITICAL"
    /\ \A i \in DOMAIN run.df : run.df[i].level # "ERROR"

\* C4: the per-script statistics have one entry for each distinct task_name,
\* are strictly ascending by task_name, and are the same for every permutation
\* of the events.
C4_StatsOrder ==
    Rendered =>
        LET df    == run.df
            stats == page.script_stats
        IN /\ Len(stats) = Cardinality(NamesIn(df))
           /\ {stats[k].script : k \in DOMAIN stats} = NamesIn(df)
           /\ \A k \in 1..(Len(stats) - 1) : StrLess(stats[k].script, stats[k + 1].script)
           /\ \A other \in Permutations(df) : ScriptStats(other) = stats

\* Statistics of two scripts whose events arrived with the greater name first.
C4_Witness ==
    /\ Rendered
    /\ Len(page.script_stats) = 2
    /\ Len(run.df) = 3
    /\ run.df[1].task_name = <<98>>
    /\ page.script_stats[1].script = <<97, 98>>

\* C5: per script, success counts the INFO events and failure the ERROR and
\* CRITICAL events; an event of another level is in the total and in the level
\* distribution only, so success + failure <= total with equality exactly when
\* the script has no such event; a script with only such events has success 0,
\* failure 0, rate 0 and is not in the alert.
C5_Classification ==
    (Rendered /\ run.df # <<>>) =>
        LET df == run.df
            Count(name, L) == Cardinality({i \in RowsOf(df, name) : df[i].level \in L})
            known == {"INFO", "ERROR", "CRITICAL"}
        IN /\ \A k \in DOMAIN page.script_stats :
                LET st    == page.script_stats[k]
                    other == Count(st.script, Levels \ known)
                IN /\ st.total = Cardinality(RowsOf(df, st.script))
                   /\ st.success = Count(st.script, {"INFO"})
                   /\ st.failed = Count(st.script, {"ERROR", "CRITICAL"})
                   /\ st.success + st.failed <= st.total
                   /\ (st.success + st.failed = st.total) <=> (other = 0)
                   /\ other = st.total =>
                         /\ st.success = 0 /\ st.failed = 0 /\ st.rate = 0
                         /\ st.script \notin Range(page.alert[1].failed_scripts)
           /\ \A l \in Levels \ known :
                LET n == Cardinality({i \in DOMAIN df : df[i].level = l})
                IN IF n = 0 THEN l \notin DOMAIN page.level_stats[1]
                   ELSE page.level_stats[1][l] = n
           /\ page.metrics[1].success = Cardinality({i \in DOMAIN df : df[i].level = "INFO"})
           /\ page.metrics[1].failed =
                 Cardinality({i \in DOMAIN df : df[i].level \in {"ERROR", "CRITICAL"}})
           /\ (\A i \in DOMAIN df : df[i].level \notin known) =>
                 /\ page.alert[1].kind = "success"
                 /\ page.metrics[1].success_rate = 0

\* One script with a success and an event of an unrecognized level, next to a
\* script with only an event of an unrecognized level.
C5_Witness ==
    /\ Rendered
    /\ \E k \in DOMAIN page.script_stats :
          /\ page.script_stats[k].total = 2
          /\ page.script_stats[k].success = 1
          /\ page.script_stats[k].failed = 0
    /\ \E k \in DOMAIN page.script_stats :
          /\ page.script_stats[k].total = 1
          /\ page.script_stats[k].success + page.script_stats[k].failed = 0

\* C7: the daily trend has one entry for each calendar date that occurs in
\* created_at, none with count 0, and its dates are strictly ascending.
C7_TrendSeries ==
    Rendered =>
        LET df    == run.df
            daily == page.daily_stats
        IN /\ {daily[k].date : k \in DOMAIN daily} =
                 {df[i].created_at \div DaySeconds : i \in DOMAIN df}
           /\ \A k \in DOMAIN daily :
                 /\ daily[k].count > 0
                 /\ daily[k].count = Cardinality({i \in DOMAIN df :
                        df[i].created_at \div DaySeconds = daily[k].date})
           /\ \A k \in 1..(Len(daily) - 1) : daily[k].date < daily[k + 1].date

\* Two events at different times of day 0 and one on day 2: two entries, with
\* nothing for day 1.
C7_Witness ==
    /\ Rendered
    /\ Len(page.daily_stats) = 2
    /\ page.daily_stats[1] = [date |-> 0, count |-> 2]
    /\ page.daily_stats[2] = [date |-> 2, count |-> 1]
    /\ \E i, j \in DOMAIN run.df : run.df[i].created_at = 0 /\ run.df[j].created_at = 43200

\* C8: of the events of a task that share its greatest created_at, the
\* latest-run table keeps the one that comes first in the input.
C8_TieKeepsFirst ==
    (Rendered /\ run.df # <<>>) =>
        LET df == run.df
        IN \A i \in Range(page.latest_runs) : \A j \in RowsOf(df, df[i].task_name) :
              df[j].created_at = df[i].created_at => i <= j

\* The page of a window without events: the warning and nothing else.
ShowsNoData ==
    /\ page.warning
    /\ ~page.exception
    /\ page.alert = <<>>
    /\ page.metrics = <<>>
    /\ page.latest_runs = <<>>
    /\ page.table_data = <<>>
    /\ page.script_stats = <<>>
    /\ page.daily_stats = <<>>
    /\ page.level_stats = <<>>

\* C6: when the fetched window holds no event, the run raises nothing and
\* shows no alert, no metric and empty tables and series; the success rate
\* expression is 0 for a total of 0.
C6_EmptyWindow ==
    (Rendered /\ run.df = <<>>) =>
        /\ ShowsNoData
        /\ SuccessRate(Len(SuccessRows(run.df)), Len(run.df)) = 0

\* The store answered a query for a window that holds none of its rows.
C6_Witness ==
    /\ Rendered
    /\ run.fetched
    /\ run.at = now
    /\ run.df = <<>>
    /\ ~page.fetch_error
    /\ table # <<>>
    /\ page.warning

\* C9: the snapshot a run aggregates was fetched for the selected days value,
\* less than the ttl before the run and not before the last manual refresh;
\* a manual refresh leaves no older entry in the cache.
C9_BoundedStaleness ==
    Rendered =>
        /\ run.days = days
        /\ run.snapshot_days = run.days
        /\ run.at - run.snapshot_at <= TTL
        /\ run.snapshot_at <= run.at
        /\ run.snapshot_at >= lastRefresh
        /\ \A e \in cache : e.at >= lastRefresh /\ e.window = e.key
        /\ run.trigger = "refresh" => run.fetched /\ run.snapshot_at = run.at

\* A run served from the cache, half a ttl after the fetch that followed a
\* manual refresh, while the other window is cached too.
C9_Witness ==
    /\ Rendered
    /\ ~run.fetched
    /\ run.at - run.snapshot_at = 30
    /\ lastRefresh >= 0
    /\ run.snapshot_at >= lastRefresh
    /\ Cardinality(cache) = 2

\* A run that no click on Refresh Data started took this step.
PlainRunStep ==
    /\ run' # run
    /\ run'.trigger \in {"load", "slider"}

\* C10: a fetch that raises leaves the page in the no-data state and is cached
\* as an empty table; while that entry is younger than the ttl, every run for
\* the same days value that no manual refresh started shows no data again
\* without running the fetch.
C10_FailureCached ==
    [][/\ (run' # run /\ run'.fetched /\ ~storeUp) =>
            /\ run'.df = <<>>
            /\ ShowsNoData'
            /\ page'.fetch_error
            /\ \E e \in cache' :
                  e.key = days' /\ e.at = now /\ e.df = <<>> /\ e.err
       /\ (PlainRunStep /\ \E e \in cache : e.key = days' /\ e.err /\ now - e.at < TTL) =>
            /\ ~run'.fetched
            /\ run'.df = <<>>
            /\ ShowsNoData'
            /\ cache' = cache]_vars

\* The store is reachable again and has rows in the window, and the run still
\* shows the failure cached half a ttl ago.
C10_Witness ==
    /\ Rendered
    /\ ~run.fetched
    /\ run.at = now
    /\ run.at - run.snapshot_at = 30
    /\ page.fetch_error
    /\ page.warning
    /\ storeUp
    /\ QueryResults(table, now, days) # {<<>>}

====
